---- MODULE Spec2Model ----
(***************************************************************************)
(* Dataset indexing and batch collation of elsa-voice-asr:                 *)
(*   corpus/mnm_early.py  MnMAudioDataset, MnMAudioTextDataset             *)
(*   src/data.py          collect_audio_batch, collect_text_batch,         *)
(*                        create_dataset, create_textset, load_*           *)
(*                                                                         *)
(* Python values are modelled with their run-time type, because the        *)
(* collators dispatch on it: a value is a record [t |-> type, v |-> ...].  *)
(* Strings (manifest lines, paths, label text) are sequences of one-       *)
(* character strings so that strip and split are computed, not assumed.    *)
(***************************************************************************)
EXTENDS Integers, Sequences, FiniteSets

VARIABLES
    manifest,        \* the manifest file: the records its lines were written from
    subset,          \* "train" | "val": which of the two sets of create_dataset
    bucketing,       \* corpus option of create_dataset / create_textset
    batch_size,      \* corpus option of create_dataset / create_textset
    pc,              \* "new" before construction, "built" after, "collate" for a bare collator call
    file_text_pair,  \* MnMAudioDataset.file_text_pair
    texts,           \* MnMAudioTextDataset.texts
    bucket_size,     \* self.bucket_size of both datasets
    call             \* the last call made and what it gave

vars == <<manifest, subset, bucketing, batch_size, pc, file_text_pair, texts, bucket_size, call>>

------------------------------------------------------------------------------
(* Bounds of the model *)

MaxLines == 3        \* manifest lines
MaxBatchSize == 3    \* configured batch_size (and so bucket_size)
MaxBatch == 4        \* samples in a batch handed directly to a collator

------------------------------------------------------------------------------
(* Python values *)

PyInt(n) == [t |-> "int", v |-> n]
PyStr(s) == [t |-> "str", v |-> s]
PyList(s) == [t |-> "list", v |-> s]
PyTuple(s) == [t |-> "tuple", v |-> s]
PyNone == [t |-> "NoneType", v |-> <<>>]

\* an exception leaving the call
Raise(e) == [ok |-> FALSE, err |-> e]
Return(x) == [ok |-> TRUE, val |-> x]

Max(a, b) == IF a >= b THEN a ELSE b
Min(a, b) == IF a <= b THEN a ELSE b

Reverse(s) == [i \in 1..Len(s) |-> s[Len(s) + 1 - i]]

\* seq[a:b] of Python for any integers a, b: negative bounds count from the
\* end, and both are clamped to [0, len]
Slice(s, a, b) ==
    LET n == Len(s)
        lo == IF a < 0 THEN Max(a + n, 0) ELSE Min(a, n)
        hi == IF b < 0 THEN Max(b + n, 0) ELSE Min(b, n)
    IN  IF lo >= hi THEN <<>> ELSE SubSeq(s, lo + 1, hi)

\* seq[i] of Python: a negative index counts from the end; IndexError outside
\* [-len, len)
Index(s, i) ==
    LET n == Len(s)
    IN  IF i >= 0 /\ i < n THEN Return(s[i + 1])
        ELSE IF i < 0 /\ i >= -n THEN Return(s[i + n + 1])
        ELSE Raise("IndexError")

------------------------------------------------------------------------------
(* Strings: str.strip() and str.split(sep) *)

Whitespace == {" ", "\n", "\t"}

RECURSIVE lstrip(_)
lstrip(s) ==
    IF s # <<>> /\ Head(s) \in Whitespace THEN lstrip(Tail(s)) ELSE s

strip(s) == Reverse(lstrip(Reverse(lstrip(s))))

\* s.split(sep): the fields between the separators, at least one field
RECURSIVE split(_, _)
split(s, sep) ==
    IF \A i \in 1..Len(s) : s[i] # sep THEN <<s>>
    ELSE LET k == CHOOSE i \in 1..Len(s) : s[i] = sep /\ \A j \in 1..(i - 1) : s[j] # sep
         IN  <<SubSeq(s, 1, k - 1)>> \o split(SubSeq(s, k + 1, Len(s)), sep)

RECURSIVE join(_, _)
join(fields, sep) ==
    IF Len(fields) = 1 THEN fields[1]
    ELSE fields[1] \o <<sep>> \o join(Tail(fields), sep)

------------------------------------------------------------------------------
(* The files the datasets read *)

WavA == <<"d", "/", "a", ".", "w">>
WavB == <<"b", ".", "w">>
WavC == <<"d", ".", "x", "/", "c">>
WavD == <<"e", "/", "a", ".", "f", ".", "w">>

LabelA == <<"l", "/", "1">>
LabelB == <<"l", "/", "2">>
LabelC == <<"3">>

\* open(text_file).readlines(): the lines of a label file, line ends kept
readlines(text_file) ==
    CASE text_file = LabelA -> << <<" ", "a", "B", " ", "a", " ", "\n">>, <<"b", "\n">> >>
      [] text_file = LabelB -> << <<"B", "b", "\n">> >>
      [] text_file = LabelC -> << <<"\n">>, <<"a", "\n">> >>

\* read_text without the strip: the line end and blanks reach the tokenizer
read_text_raw(text_file) == readlines(text_file)[1]

read_text(text_file) == strip(readlines(text_file)[1])

\* the injected text transform (NormSwahiliTextTransformer): lower-cases
data_transformer(text) ==
    [i \in 1..Len(text) |-> IF text[i] = "B" THEN "b" ELSE text[i]]

\* the injected tokenizer: one id per character
tokenizer_encode(text) ==
    [i \in 1..Len(text) |->
        PyInt(CASE text[i] = "a" -> 4 [] text[i] = "b" -> 5 [] text[i] = " " -> 3 [] OTHER -> 1)]

\* the records manifest lines are written from: identifier, middle fields, label file
Records ==
    { [id |-> WavA, mid |-> <<>>, label |-> LabelA],
      [id |-> WavC, mid |-> << <<"m">> >>, label |-> LabelB],
      [id |-> WavB, mid |-> << <<"z">>, <<>> >>, label |-> LabelC] }

\* one line of the manifest file, as iterating the open file yields it
ManifestLine(r) == join(<<r.id>> \o r.mid \o <<r.label>>, ",") \o <<"\n">>

ManifestFile(m) == [i \in 1..Len(m) |-> ManifestLine(m[i])]

Manifests == UNION { [1..n -> Records] : n \in 0..MaxLines }

------------------------------------------------------------------------------
(* corpus/mnm_early.py *)

\* the fields of one manifest line
str_vals(x) == split(strip(x), ",")

\* the label field: str_vals[-1]
LabelField(x) == str_vals(x)[Len(str_vals(x))]

\* lines 30-33: the token ids of one manifest line
Preprocess(x) == PyList(tokenizer_encode(data_transformer(read_text(LabelField(x)))))

\* MnMAudioDataset.__init__: file_text_pair after the loop over the manifest
MnMAudioDataset_init(lines) ==
    [i \in 1..Len(lines) |-> PyTuple(<<PyStr(str_vals(lines[i])[1]), Preprocess(lines[i])>>)]

\* MnMAudioTextDataset.__init__: texts after the loop over the manifest
MnMAudioTextDataset_init(lines) ==
    [i \in 1..Len(lines) |-> Preprocess(lines[i])]

\* __getitem__ without the clamp of line 43: the window runs off the end
MnMAudioDataset_getitem_noclamp(pairs, bsize, index) ==
    IF bsize > 1
    THEN Return(PyList(Slice(pairs, index, index + bsize)))
    ELSE Index(pairs, index)

\* MnMAudioDataset.__getitem__
MnMAudioDataset_getitem(pairs, bsize, index) ==
    IF bsize > 1
    THEN LET idx == Min(Len(pairs) - bsize, index)
         IN  Return(PyList(Slice(pairs, idx, idx + bsize)))
    ELSE Index(pairs, index)

\* MnMAudioTextDataset.__getitem__
MnMAudioTextDataset_getitem(txts, bsize, index) ==
    IF bsize > 1
    THEN LET idx == Min(Len(txts) - bsize, index)
         IN  Return(PyList(Slice(txts, idx, idx + bsize)))
    ELSE Index(txts, index)

\* a __getitem__ that takes the sample out of the list (self.texts.pop)
MnMAudioTextDataset_after_getitem_pop(txts, bsize, index) ==
    IF txts = <<>> THEN txts ELSE SubSeq(txts, 1, Len(txts) - 1)

\* __getitem__ only reads: the stored list after the call
MnMAudioDataset_after_getitem(pairs, bsize, index) == pairs
MnMAudioTextDataset_after_getitem(txts, bsize, index) == txts

------------------------------------------------------------------------------
(* src/data.py: the collators *)

HALF_BATCHSIZE_AUDIO_LEN == 800
HALF_BATCHSIZE_TEXT_LEN == 150

\* the injected audio feature transform: a [frames, featDim] array, known here
\* by the file it was computed from and its number of frames
audio_transform(path) ==
    [src |-> path,
     frames |-> CASE path = WavA -> HALF_BATCHSIZE_AUDIO_LEN + 1
                  [] path = WavB -> HALF_BATCHSIZE_AUDIO_LEN
                  [] path = WavC -> 5
                  [] path = WavD -> 5
                  [] OTHER -> 1]

\* str(b[0]).split('/')[-1].split('.')[0]
file_name(path) ==
    LET parts == split(path, "/")
    IN  split(parts[Len(parts)], ".")[1]

\* torch.LongTensor(list of int)
LongTensor(lst) == [i \in 1..Len(lst.v) |-> lst.v[i].v]

\* list.sort is stable: an element goes behind the elements whose key is not greater
RECURSIVE StableSort(_)
StableSort(s) ==
    IF s = <<>> THEN <<>>
    ELSE LET rest == StableSort(SubSeq(s, 1, Len(s) - 1))
             x == s[Len(s)]
             n == Cardinality({i \in 1..Len(rest) : rest[i][1] <= x[1]})
         IN  SubSeq(rest, 1, n) \o <<x>> \o SubSeq(rest, n + 1, Len(rest))

\* a descending sort made of an ascending sort and a reversal: equal keys come
\* out in reverse input order
sorted_reverse_naive(rows) == Reverse(StableSort(rows))

\* sorted(rows, reverse=True, key=lambda x: x[0]): CPython reverses the list,
\* sorts it stably and reverses it again, which keeps equal keys in input order
sorted_reverse(rows) == Reverse(StableSort(Reverse(rows)))

MaxLen(seqs) ==
    IF seqs = <<>> THEN 0
    ELSE CHOOSE m \in {Len(seqs[i]) : i \in 1..Len(seqs)} : \A i \in 1..Len(seqs) : Len(seqs[i]) <= m

\* pad_sequence(sequences, batch_first=True) on 1-D tensors: one row per
\* sequence, zero-filled to the longest; torch raises on an empty list
\* (RuntimeError in current releases, IndexError in older ones)
pad_sequence(seqs) ==
    IF seqs = <<>> THEN Raise("RuntimeError")
    ELSE Return([i \in 1..Len(seqs) |->
                    [j \in 1..MaxLen(seqs) |-> IF j <= Len(seqs[i]) THEN seqs[i][j] ELSE 0]])

\* pad_sequence(audio_feat, batch_first=True): every feature array zero-filled
\* along the frame axis to the longest
pad_features(feats) ==
    LET width == CHOOSE m \in {feats[i].frames : i \in 1..Len(feats)} :
                     \A i \in 1..Len(feats) : feats[i].frames <= m
    IN  [i \in 1..Len(feats) |-> [src |-> feats[i].src, frames |-> feats[i].frames, padded_to |-> width]]

\* collect_audio_batch, lines 30-32: a batch whose first element is not a tuple is unwrapped
audio_unwrap(batch) ==
    IF Len(batch.v) = 0 THEN Raise("IndexError")
    ELSE IF batch.v[1].t # "tuple" THEN Return(batch.v[1]) ELSE Return(batch)

\* halving decided on the longest file of the batch instead of the first
audio_halve_by_max(b, mode) ==
    IF Len(b) = 0 THEN Raise("IndexError")
    ELSE IF (\E i \in 1..Len(b) : audio_transform(b[i].v[1].v).frames > HALF_BATCHSIZE_AUDIO_LEN)
            /\ mode = "train"
         THEN Return(Slice(b, 0, Len(b) \div 2))
         ELSE Return(b)

\* collect_audio_batch, lines 34-36: the batch is halved on a long first file in train mode
audio_halve(b, mode) ==
    IF Len(b) = 0 THEN Raise("IndexError")
    ELSE IF audio_transform(b[1].v[1].v).frames > HALF_BATCHSIZE_AUDIO_LEN /\ mode = "train"
         THEN Return(Slice(b, 0, Len(b) \div 2))
         ELSE Return(b)

\* collect_audio_batch, lines 39-55
audio_read_sort_pad(b) ==
    LET rows == [i \in 1..Len(b) |->
                    <<audio_transform(b[i].v[1].v).frames,
                      file_name(b[i].v[1].v),
                      audio_transform(b[i].v[1].v),
                      LongTensor(b[i].v[2])>>]
        srt == sorted_reverse(rows)
    IN  IF srt = <<>> THEN Raise("ValueError")
        ELSE Return([file |-> [i \in 1..Len(srt) |-> srt[i][2]],
                     audio_feat |-> pad_features([i \in 1..Len(srt) |-> srt[i][3]]),
                     audio_len |-> [i \in 1..Len(srt) |-> srt[i][1]],
                     text |-> pad_sequence([i \in 1..Len(srt) |-> srt[i][4]]).val])

collect_audio_batch(batch, mode) ==
    LET u == audio_unwrap(batch)
    IN  IF ~u.ok THEN u
        ELSE LET h == audio_halve(u.val.v, mode)
             IN  IF ~h.ok THEN h ELSE audio_read_sort_pad(h.val)

\* collect_text_batch, lines 62-64: a batch whose first element holds a list is unwrapped
text_unwrap(batch) ==
    IF Len(batch.v) = 0 THEN Raise("IndexError")
    ELSE IF Len(batch.v[1].v) = 0 THEN Raise("IndexError")
    ELSE IF batch.v[1].v[1].t = "list" THEN Return(batch.v[1]) ELSE Return(batch)

\* halving from the threshold on, instead of above it
text_halve_from_threshold(b, mode) ==
    IF Len(b[1].v) >= HALF_BATCHSIZE_TEXT_LEN /\ mode = "train"
    THEN Slice(b, 0, Len(b) \div 2)
    ELSE b

\* collect_text_batch, lines 66-67
text_halve(b, mode) ==
    IF Len(b[1].v) > HALF_BATCHSIZE_TEXT_LEN /\ mode = "train"
    THEN Slice(b, 0, Len(b) \div 2)
    ELSE b

collect_text_batch(batch, mode) ==
    LET u == text_unwrap(batch)
    IN  IF ~u.ok THEN u
        ELSE LET b == text_halve(u.val.v, mode)
             IN  pad_sequence([i \in 1..Len(b) |-> LongTensor(b[i])])

\* the caller's batch list after the call: both collators only rebind their
\* local name (batch = batch[0], batch = batch[:n]) and build new objects
collect_audio_batch_after(batch, mode) == batch
collect_text_batch_after(batch, mode) == batch

------------------------------------------------------------------------------
(* src/data.py: create_dataset, create_textset, load_dataset, load_textset *)

\* lines 93 and 143 for the training set, lines 100 and 151 for the validation set
create_bucket_size(sub, bucketng, bsize) ==
    IF sub = "train" THEN (IF bucketng THEN bsize ELSE 1) ELSE 1

\* lines 92 and 144 (tr_loader_bs) and lines 114, 165 (the validation loader gets batch_size)
loader_batch_size(sub, bucketng, bsize) ==
    IF sub = "train" THEN (IF bucketng THEN 1 ELSE bsize) ELSE bsize

\* the mode each loader's collate function is bound to
collate_mode(cls, sub) ==
    IF sub = "train" THEN "train"
    ELSE IF cls = "audio" THEN "test" ELSE "dev"

Modes == {"train", "test", "dev"}

\* the index lists a loader hands out for a dataset of n samples: the training
\* loader shuffles and drops the short last batch, the validation loader walks
\* the dataset in order and keeps it
IsInjective(f) == \A i, j \in DOMAIN f : f[i] = f[j] => i = j

BatchIndices(sub, n, bs) ==
    IF sub = "train"
    THEN {ix \in [1..bs -> 0..(n - 1)] : IsInjective(ix)}
    ELSE {[i \in 1..Min(bs, n - k * bs) |-> k * bs + i - 1] : k \in {k \in 0..n : k * bs < n}}

\* [dataset[i] for i in indices] for one of the two dataset classes
RECURSIVE FetchItems(_, _, _, _)
FetchItems(cls, store, bsize, indices) ==
    IF indices = <<>> THEN [items |-> <<>>, store |-> store]
    ELSE LET got == IF cls = "audio"
                    THEN MnMAudioDataset_getitem(store, bsize, Head(indices))
                    ELSE MnMAudioTextDataset_getitem(store, bsize, Head(indices))
             after == IF cls = "audio"
                      THEN MnMAudioDataset_after_getitem(store, bsize, Head(indices))
                      ELSE MnMAudioTextDataset_after_getitem(store, bsize, Head(indices))
             rest == FetchItems(cls, after, bsize, Tail(indices))
         IN  [items |-> <<got.val>> \o rest.items, store |-> rest.store]

------------------------------------------------------------------------------
(* The state machine *)

NoCall == [op |-> "none", cls |-> "", arg |-> PyNone, mode |-> "", out |-> PyNone,
           after |-> PyNone, shape |-> "", src |-> <<>>]

Classes == {"audio", "text"}

Init ==
    /\ manifest \in Manifests
    /\ subset \in {"train", "val"}
    /\ bucketing \in BOOLEAN
    /\ batch_size \in 1..MaxBatchSize
    /\ pc = "new"
    /\ file_text_pair = <<>>
    /\ texts = <<>>
    /\ bucket_size = 0
    /\ call = NoCall

\* create_dataset and create_textset build both datasets from the manifest
Create ==
    /\ pc = "new"
    /\ pc' = "built"
    /\ bucket_size' = create_bucket_size(subset, bucketing, batch_size)
    /\ file_text_pair' = MnMAudioDataset_init(ManifestFile(manifest))
    /\ texts' = MnMAudioTextDataset_init(ManifestFile(manifest))
    /\ call' = [NoCall EXCEPT !.op = "init"]
    /\ UNCHANGED <<manifest, subset, bucketing, batch_size>>

Store(cls) == IF cls = "audio" THEN file_text_pair ELSE texts

\* dataset[index], for any integer index
GetItem(cls, index) ==
    /\ pc = "built"
    /\ call' = [NoCall EXCEPT !.op = "getitem", !.cls = cls, !.arg = PyInt(index),
                   !.out = IF cls = "audio"
                           THEN MnMAudioDataset_getitem(file_text_pair, bucket_size, index)
                           ELSE MnMAudioTextDataset_getitem(texts, bucket_size, index)]
    /\ file_text_pair' = IF cls = "audio"
                         THEN MnMAudioDataset_after_getitem(file_text_pair, bucket_size, index)
                         ELSE file_text_pair
    /\ texts' = IF cls = "text"
                THEN MnMAudioTextDataset_after_getitem(texts, bucket_size, index)
                ELSE texts
    /\ UNCHANGED <<manifest, subset, bucketing, batch_size, pc, bucket_size>>

\* one step of a DataLoader: fetch the items of the next index list, collate them
LoaderNext(cls, indices) ==
    /\ pc = "built"
    /\ LET f == FetchItems(cls, Store(cls), bucket_size, indices)
           batch == PyList(f.items)
           mode == collate_mode(cls, subset)
       IN  /\ call' = [NoCall EXCEPT !.op = "collate", !.cls = cls, !.arg = batch, !.mode = mode,
                          !.src = indices,
                          !.out = IF cls = "audio" THEN collect_audio_batch(batch, mode)
                                  ELSE collect_text_batch(batch, mode),
                          !.after = IF cls = "audio" THEN collect_audio_batch_after(batch, mode)
                                    ELSE collect_text_batch_after(batch, mode)]
           /\ file_text_pair' = IF cls = "audio" THEN f.store ELSE file_text_pair
           /\ texts' = IF cls = "text" THEN f.store ELSE texts
    /\ UNCHANGED <<manifest, subset, bucketing, batch_size, pc, bucket_size>>

Indexes == (0 - MaxLines - 1)..(MaxLines + 1)

Next ==
    \/ Create
    \/ \E cls \in Classes, index \in Indexes : GetItem(cls, index)
    \/ \E cls \in Classes :
         \E indices \in BatchIndices(subset, Len(Store(cls)),
                                     loader_batch_size(subset, bucketing, batch_size)) :
            LoaderNext(cls, indices)

Spec == Init /\ [][Next]_vars

------------------------------------------------------------------------------
(* The collators called on any batch, flat or bucket-wrapped *)

Tokens(ids) == PyList([i \in 1..Len(ids) |-> PyInt(ids[i])])

LongText == Tokens([i \in 1..(HALF_BATCHSIZE_TEXT_LEN + 1) |-> 2])
EdgeText == Tokens([i \in 1..HALF_BATCHSIZE_TEXT_LEN |-> 6])

AudioSamples ==
    { PyTuple(<<PyStr(WavA), Tokens(<<7>>)>>),
      PyTuple(<<PyStr(WavB), Tokens(<<9, 0, 8>>)>>),
      PyTuple(<<PyStr(WavC), Tokens(<<>>)>>),
      PyTuple(<<PyStr(WavD), Tokens(<<7, 8>>)>>) }

TextSamples == { Tokens(<<>>), Tokens(<<7>>), Tokens(<<9, 0, 8>>), EdgeText, LongText }

SamplesOf(cls) == IF cls = "audio" THEN AudioSamples ELSE TextSamples

\* what the loader hands over: the samples themselves, or one bucket holding them
Shaped(shape, samples) ==
    IF shape = "flat" THEN PyList(samples) ELSE PyList(<<PyList(samples)>>)

InitCollate ==
    /\ manifest = <<>>
    /\ subset = "train"
    /\ bucketing = FALSE
    /\ batch_size = 1
    /\ pc = "collate"
    /\ file_text_pair = <<>>
    /\ texts = <<>>
    /\ bucket_size = 0
    /\ \E cls \in Classes, shape \in {"flat", "bucketed"}, n \in 0..MaxBatch :
         \E samples \in [1..n -> SamplesOf(cls)] :
            call = [NoCall EXCEPT !.op = "batch", !.cls = cls, !.shape = shape,
                       !.src = samples, !.arg = Shaped(shape, samples)]

CollateAudio(mode) ==
    /\ pc = "collate"
    /\ call.op = "batch"
    /\ call.cls = "audio"
    /\ call' = [call EXCEPT !.op = "collate", !.mode = mode,
                   !.out = collect_audio_batch(call.arg, mode),
                   !.after = collect_audio_batch_after(call.arg, mode)]
    /\ UNCHANGED <<manifest, subset, bucketing, batch_size, pc, file_text_pair, texts, bucket_size>>

CollateText(mode) ==
    /\ pc = "collate"
    /\ call.op = "batch"
    /\ call.cls = "text"
    /\ call' = [call EXCEPT !.op = "collate", !.mode = mode,
                   !.out = collect_text_batch(call.arg, mode),
                   !.after = collect_text_batch_after(call.arg, mode)]
    /\ UNCHANGED <<manifest, subset, bucketing, batch_size, pc, file_text_pair, texts, bucket_size>>

NextCollate ==
    \/ \E mode \in Modes : CollateAudio(mode)
    \/ \E mode \in Modes : CollateText(mode)

SpecCollate == InitCollate /\ [][NextCollate]_vars

------------------------------------------------------------------------------
(* Claims on the datasets, under Spec *)

GetCalled == pc = "built" /\ call.op = "getitem"

GetIndex == call.arg.v

\* the samples of positions first .. first + n - 1 (0-based), in dataset order
Window(store, first, n) == [k \in 1..n |-> store[first + k]]

\* C1: with 1 < bucket_size <= length and 0 <= index < length, __getitem__ of
\* either class returns exactly bucket_size consecutive samples in dataset
\* order, the first at position min(index, length - bucket_size), which is
\* never negative; every index >= length - bucket_size gets the tail window.
C1_BucketWindow ==
    (GetCalled /\ bucket_size > 1 /\ bucket_size <= Len(Store(call.cls))
        /\ GetIndex >= 0 /\ GetIndex < Len(Store(call.cls)))
    => LET store == Store(call.cls)
           tail == Len(store) - bucket_size
           start == IF GetIndex <= tail THEN GetIndex ELSE tail
       IN  /\ call.out.ok
           /\ call.out.val.t = "list"
           /\ Len(call.out.val.v) = bucket_size
           /\ start >= 0
           /\ call.out.val.v = Window(store, start, bucket_size)
           /\ (GetIndex >= tail => call.out.val.v = Window(store, tail, bucket_size))

\* a bucket asked for past the last full window: the tail window comes back
C1_Witness ==
    /\ GetCalled
    /\ bucket_size = 2
    /\ Len(Store(call.cls)) = 3
    /\ GetIndex = 2
    /\ call.out.ok
    /\ call.out.val.v = Window(Store(call.cls), 1, 2)
    /\ Store(call.cls)[2] # Store(call.cls)[3]

\* C2: with bucket_size = 1, __getitem__ returns the sample at position index
\* for every index in [0, length) and raises IndexError for every other
\* integer index, the negative ones included.
C2_SingleSampleOrIndexError ==
    (GetCalled /\ bucket_size = 1)
    => IF GetIndex >= 0 /\ GetIndex < Len(Store(call.cls))
       THEN call.out = Return(Store(call.cls)[GetIndex + 1])
       ELSE call.out = Raise("IndexError")

\* C3: a dataset whose bucket_size exceeds its length never returns a window
\* from __getitem__, whatever the index: the call fails.
C3_OversizedBucketFails ==
    (GetCalled /\ bucket_size > Len(Store(call.cls))) => ~call.out.ok

\* the text a label file stands for: its first line, trimmed
GroundTruth(label) ==
    CASE label = LabelA -> <<"a", "B", " ", "a">>
      [] label = LabelB -> <<"B", "b">>
      [] label = LabelC -> <<>>

ExpectedTokens(r) == PyList(tokenizer_encode(data_transformer(GroundTruth(r.label))))

\* C8: a dataset built from a manifest of N valid lines has length N, and its
\* i-th sample comes from the i-th line: the identifier is the line's first
\* field, the token ids are tokenizer.encode(data_transformer(text)) of the
\* label file named by the line's last field; middle fields play no part.
C8_ManifestRoundTrip ==
    pc = "built"
    => /\ Len(file_text_pair) = Len(manifest)
       /\ Len(texts) = Len(manifest)
       /\ \A i \in 1..Len(manifest) :
            /\ file_text_pair[i] = PyTuple(<<PyStr(manifest[i].id), ExpectedTokens(manifest[i])>>)
            /\ texts[i] = ExpectedTokens(manifest[i])

\* three different lines, with and without middle fields, have been read
C8_Witness ==
    /\ pc = "built"
    /\ Len(manifest) = 3
    /\ manifest[1].mid = <<>>
    /\ Len(manifest[2].mid) = 2
    /\ Len(manifest[3].mid) = 1
    /\ Len(file_text_pair) = 3
    /\ texts[2] = PyList(<<>>)

\* C9: __getitem__ and the collators leave the stored samples as construction
\* made them and the batch as it was handed over, so __getitem__ gives the
\* same value for the same index every time.
C9_NothingMutated ==
    pc = "built"
    => /\ file_text_pair = MnMAudioDataset_init(ManifestFile(manifest))
       /\ texts = MnMAudioTextDataset_init(ManifestFile(manifest))
       /\ (call.op = "collate" => call.after = call.arg)
       /\ (call.op = "getitem" /\ call.cls = "audio"
             => call.out = MnMAudioDataset_getitem(
                              MnMAudioDataset_init(ManifestFile(manifest)), bucket_size, GetIndex))
       /\ (call.op = "getitem" /\ call.cls = "text"
             => call.out = MnMAudioTextDataset_getitem(
                              MnMAudioTextDataset_init(ManifestFile(manifest)), bucket_size, GetIndex))

\* a training batch of two samples was halved by the audio collator
C9_Witness ==
    /\ pc = "built"
    /\ call.op = "collate"
    /\ call.cls = "audio"
    /\ Len(call.arg.v) = 2
    /\ call.out.ok
    /\ Len(call.out.val.file) = 1
    /\ Len(file_text_pair) = 3

------------------------------------------------------------------------------
(* Claims on the collators, under SpecCollate *)

CollateCalled(cls) == pc = "collate" /\ call.op = "collate" /\ call.cls = cls

Orderings(k) == {p \in [1..k -> 1..k] : IsInjective(p)}

PathOf(sample) == sample.v[1].v
FramesOf(sample) == audio_transform(PathOf(sample)).frames
TokenIds(lst) == [i \in 1..Len(lst.v) |-> lst.v[i].v]

\* the display name of each audio file: last path component, up to its first dot
ExpectedName(path) ==
    CASE path = WavA -> <<"a">>
      [] path = WavB -> <<"b">>
      [] path = WavC -> <<"c">>
      [] path = WavD -> <<"a">>

\* a padded row: the ids, then nothing but 0
RowHolds(row, ids) ==
    /\ Len(row) >= Len(ids)
    /\ \A j \in 1..Len(row) : row[j] = (IF j <= Len(ids) THEN ids[j] ELSE 0)

\* C4: the four outputs of the audio collator are one and the same
\* permutation of the processed samples, frame lengths never increase, and
\* samples of equal frame length keep their input order.
C4_SortedJointly ==
    (CollateCalled("audio") /\ call.out.ok)
    => LET o == call.out.val
           k == Len(o.file)
       IN  /\ k >= 1
           /\ k <= Len(call.src)
           /\ Len(o.audio_feat) = k
           /\ Len(o.audio_len) = k
           /\ Len(o.text) = k
           /\ \A i \in 1..(k - 1) : o.audio_len[i] >= o.audio_len[i + 1]
           /\ \E p \in Orderings(k) :
                /\ \A i \in 1..k :
                     /\ o.file[i] = ExpectedName(PathOf(call.src[p[i]]))
                     /\ o.audio_feat[i].src = PathOf(call.src[p[i]])
                     /\ o.audio_feat[i].frames = FramesOf(call.src[p[i]])
                     /\ o.audio_len[i] = FramesOf(call.src[p[i]])
                     /\ RowHolds(o.text[i], TokenIds(call.src[p[i]].v[2]))
                /\ \A i, j \in 1..k :
                     (i < j /\ o.audio_len[i] = o.audio_len[j]) => p[i] < p[j]

\* an unsorted batch with two different files of equal length was collated
C4_Witness ==
    /\ CollateCalled("audio")
    /\ call.out.ok
    /\ Len(call.out.val.file) = 4
    /\ FramesOf(call.src[1]) < FramesOf(call.src[2])
    /\ \E i \in 1..3 :
         /\ call.out.val.audio_len[i] = call.out.val.audio_len[i + 1]
         /\ call.out.val.audio_feat[i].src # call.out.val.audio_feat[i + 1].src

\* how many samples of n the audio collator keeps
AudioKept(samples, mode) ==
    IF mode = "train" /\ FramesOf(samples[1]) > HALF_BATCHSIZE_AUDIO_LEN
    THEN Len(samples) \div 2
    ELSE Len(samples)

BatchEndsEmpty ==
    \/ Len(call.src) = 0
    \/ /\ Len(call.src) = 1
       /\ call.mode = "train"
       /\ IF call.cls = "audio"
          THEN FramesOf(call.src[1]) > HALF_BATCHSIZE_AUDIO_LEN
          ELSE Len(call.src[1].v) > HALF_BATCHSIZE_TEXT_LEN

\* C6: both collators fail with EmptyBatchError, returning nothing, when the
\* batch is empty on input or empty after the train-mode halving.
C6_EmptyBatchError ==
    (pc = "collate" /\ call.op = "collate" /\ BatchEndsEmpty)
    => call.out = Raise("EmptyBatchError")

\* how many sequences of n the text collator keeps
TextKept(seqs, mode) ==
    IF mode = "train" /\ Len(seqs[1].v) > HALF_BATCHSIZE_TEXT_LEN
    THEN Len(seqs) \div 2
    ELSE Len(seqs)

C10_BucketedSameAsFlat ==
    (pc = "collate" /\ call.op = "collate" /\ call.shape = "bucketed" /\ Len(call.src) >= 1)
    => call.out = IF call.cls = "audio"
                  THEN collect_audio_batch(PyList(call.src), call.mode)
                  ELSE collect_text_batch(PyList(call.src), call.mode)

====
